---- MODULE Spec2Model ----
(***************************************************************************)
(* A model of the Simple3DMolecule canvas viewer (public/js/simple3d.js)   *)
(* and of the API server.                                                  *)
(*                                                                         *)
(* Numbers.  Angles are kept exactly as  h * 0.01 + q * (pi/2)  radians,   *)
(* with h and q integers: the drag sensitivity (0.01), the spin step       *)
(* (0.02) and the presets 0 and 0.5 are whole numbers of hundredths, and   *)
(* pi/2 is the only other quantity the code ever stores in an angle.  A    *)
(* property of the rotation object can also be undefined or NaN.  The      *)
(* zoom is an exact fraction n/d in lowest terms.  Arithmetic is that of   *)
(* the reals: the rounding of IEEE doubles is not modelled.  Sines and     *)
(* cosines, which only the depth order of the atoms reads, are taken to    *)
(* thousandths.                                                            *)
(*                                                                         *)
(* Each event handler and each public method is one atomic action (the     *)
(* page is single-threaded), including the render() it ends with.          *)
(*                                                                         *)
(* The API server (server.js) is modelled beside it: the users and         *)
(* savedVisualizations maps, the clock the ids are taken from, and the     *)
(* register and login requests that wait for bcryptjs.  A synchronous      *)
(* route handler is one action; an async one is two, split at its await.   *)
(***************************************************************************)
EXTENDS Integers, Sequences, FiniteSets, TLC

VARIABLES
    atoms,        \* this.atoms: the scene's atoms, in order
    bonds,        \* this.bonds: the scene's bonds, in order
    rotation,     \* the value of the object this.rotation refers to: [x, y]
    rotRef,       \* which object this.rotation refers to: "literal", a views key, "constructor"
    views,        \* the views table this.rotation refers into, while it does
    objectProps,  \* the x and y properties of the global Object function
    zoom,         \* this.zoom, a fraction [n, d]
    spinning,     \* this.spinning
    isDragging,   \* setupInteraction's closure variable
    lastX,        \* setupInteraction's closure variable
    lastY,        \* setupInteraction's closure variable
    pending,      \* spin callbacks waiting in the animation-frame queue
    surface,      \* what the canvas shows
    renderCount,  \* render() calls made by the handler that ran last
    threw,        \* whether the handler that ran last ended by an exception
    fired,        \* whether the step that ran last was a spin callback of the frame queue
    defaultPrevented, \* whether the handler that ran last called e.preventDefault()
    zoomOps,      \* zoom multiplications since the last resetView (bounds the run)
    loaded,       \* the arguments of the setMolecule call that made the scene (none after clear)
    dataset,      \* for each molecule object the page holds: "intact", or "written" by a load
    reloaded,     \* the last load was of the molecule loaded before it, showing an element hidden then
    lastColor,    \* the last direct call of getElementColor: its argument and what it returned
    lastRadius,   \* the last direct call of getElementRadius: its argument and what it returned
    users,        \* server: the users Map, username -> record
    registeredWith, \* server: the password of the registration that wrote each record
    savedVisualizations, \* server: the savedVisualizations Map, id -> record
    now,          \* server: Date.now()
    inflight,     \* server: the register and login requests waiting for bcryptjs
    issued,       \* server: the usernames a token has been signed for
    response      \* server: what the step that ran last answered (status 0: nothing)

vars == <<atoms, bonds, rotation, rotRef, views, objectProps, zoom, spinning,
          isDragging, lastX, lastY, pending, surface, renderCount, threw, fired,
          defaultPrevented, zoomOps,
          loaded, dataset, reloaded, lastColor, lastRadius,
          users, registeredWith, savedVisualizations, now, inflight, issued, response>>

----------------------------------------------------------------------------
(* Bounds of the exploration *)

MaxPos == 1
MaxDrift == 1
MaxPending == 2
MaxZoomOps == 11
MaxZoomInt == 100000000
SurfaceZoomOps == 1
MaxNow == 3

----------------------------------------------------------------------------
(* Numbers *)

Num(h, q) == [k |-> "num", h |-> h, q |-> q]
Undefined == [k |-> "undefined", h |-> 0, q |-> 0]
NaN == [k |-> "NaN", h |-> 0, q |-> 0]

\* v + d * 0.01 in JavaScript: undefined + n and NaN + n are NaN
AddHundredths(v, d) == IF v.k = "num" THEN Num(v.h + d, v.q) ELSE NaN

IsNumber(v) == v.k = "num"

Abs(i) == IF i < 0 THEN -i ELSE i

\* the angles the exploration keeps: within MaxDrift hundredths of a preset
AngleInBounds(v) == v.k # "num" \/ \E base \in {0, 50} : Abs(v.h - base) <= MaxDrift

RECURSIVE GCD(_, _)
GCD(a, b) == IF b = 0 THEN a ELSE GCD(b, a % b)

Frac(n, d) == LET g == GCD(n, d) IN [n |-> n \div g, d |-> d \div g]

\* z * (fn/fd)
FracMul(z, fn, fd) == Frac(z.n * fn, z.d * fd)

\* z > hi/1 and z < 1/lo, without multiplying the large side
FracGreater(z, hi) == z.d <= (z.n - 1) \div hi
FracBelowInverse(z, lo) == z.n <= (z.d - 1) \div lo

FracFits(z) == z.n <= MaxZoomInt /\ z.d <= MaxZoomInt

One == [n |-> 1, d |-> 1]

----------------------------------------------------------------------------
(* Zoom arithmetic *)

ZoomMax == [n |-> 5, d |-> 1]
ZoomMin == [n |-> 1, d |-> 10]

\* Math.min(z, 5)
MinWithMax(z) == IF FracGreater(z, 5) THEN ZoomMax ELSE z

\* Math.max(z, 0.1)
MaxWithMin(z) == IF FracBelowInverse(z, 10) THEN ZoomMin ELSE z

\* (mutant) a delta of 0.9 for deltaY = 0 as well
WheelDeltaZeroShrinks(deltaY) ==
    IF deltaY >= 0 THEN [n |-> 9, d |-> 10] ELSE [n |-> 11, d |-> 10]

\* wheel: const delta = e.deltaY > 0 ? 0.9 : 1.1
WheelDelta(deltaY) == IF deltaY > 0 THEN [n |-> 9, d |-> 10] ELSE [n |-> 11, d |-> 10]

\* wheel: this.zoom *= delta; this.zoom = Math.max(0.1, Math.min(this.zoom, 5))
WheelZoom(z, deltaY) ==
    MaxWithMin(MinWithMax(FracMul(z, WheelDelta(deltaY).n, WheelDelta(deltaY).d)))

\* zoomIn: this.zoom *= 1.2; this.zoom = Math.min(this.zoom, 5)
ZoomInValue(z) == MinWithMax(FracMul(z, 12, 10))

\* (mutant) zoomOut without its clamp
ZoomOutUnclamped(z) == FracMul(z, 8, 10)

\* zoomOut: this.zoom *= 0.8; this.zoom = Math.max(this.zoom, 0.1)
ZoomOutValue(z) == MaxWithMin(FracMul(z, 8, 10))

\* e.deltaY: scroll down, no vertical scroll, scroll up
WheelDeltas == {-1, 0, 1}

----------------------------------------------------------------------------
(* Molecules and visibility masks *)

Elements == {"H", "C", "O"}

Atom(element, x, y, z) == [element |-> element, x |-> x, y |-> y, z |-> z]
Bond(from, to, order) == [from |-> from, to |-> to, order |-> order]

NullMolecule == [isNull |-> TRUE, atoms |-> <<>>, bonds |-> <<>>]
Molecule(a, b) == [isNull |-> FALSE, atoms |-> a, bonds |-> b]

\* coordinates in hundredths of a unit
Water ==
    Molecule(<<Atom("O", 0, 0, 0), Atom("H", 96, 0, 0), Atom("H", -24, 93, 0)>>,
             <<Bond(0, 1, 1), Bond(0, 2, 1)>>)

CarbonDioxide ==
    Molecule(<<Atom("O", -116, 0, 0), Atom("C", 0, 0, 0), Atom("O", 116, 0, 0)>>,
             <<Bond(1, 0, 2), Bond(1, 2, 2)>>)

\* a record with a bond to an index that is no atom's, and a self bond
Fragment ==
    Molecule(<<Atom("C", 0, 0, 0), Atom("O", 143, 0, 0), Atom("H", 170, 90, 0)>>,
             <<Bond(0, 1, 1), Bond(1, 2, 1), Bond(0, 5, 1), Bond(2, 2, 1)>>)

\* atoms in front of and behind the plane z = 0
Methane ==
    Molecule(<<Atom("C", 0, 0, 0), Atom("H", 63, 63, 63), Atom("H", -63, -63, 63),
               Atom("H", -63, 63, -63), Atom("H", 63, -63, -63)>>,
             <<Bond(0, 1, 1), Bond(0, 2, 1), Bond(0, 3, 1), Bond(0, 4, 1)>>)

Empty == Molecule(<<>>, <<>>)

\* an atom record that already has the properties setMolecule adds
Carried(atom, originalIndex, visible) ==
    [element |-> atom.element, x |-> atom.x, y |-> atom.y, z |-> atom.z,
     originalIndex |-> originalIndex, visible |-> visible]

\* the scene of Fragment with C hidden (viewer.atoms, viewer.bonds), passed
\* back to setMolecule: its atoms carry originalIndex 1 and 2
Rescene ==
    Molecule(<<Carried(Atom("O", 143, 0, 0), 1, TRUE), Carried(Atom("H", 170, 90, 0), 2, TRUE)>>,
             <<Bond(1, 2, 1), Bond(2, 2, 1)>>)

\* the objects the page holds, as they are made
Dataset ==
    [empty |-> Empty, water |-> Water, carbonDioxide |-> CarbonDioxide,
     fragment |-> Fragment, rescene |-> Rescene]

Intact == [id \in DOMAIN Dataset |-> "intact"]

\* what setMolecule can be given: null, or one of the objects held that is
\* still as it was made
Held(d) == {NullMolecule} \cup {Dataset[id] : id \in {i \in DOMAIN d : d[i] = "intact"}}

Molecules == Held(Intact)

\* The value found under a key of elementVisibility: the key is missing, or
\* holds true, false, or 0 (a falsy value that is not the boolean false).
MaskValues == {"absent", "true", "false", "zero"}

\* setMolecule's second argument: omitted, or an object
OmittedMask == [given |-> FALSE, map |-> [e \in Elements |-> "absent"]]
Mask(m) == [given |-> TRUE, map |-> m]
Masks == {OmittedMask} \cup {Mask(m) : m \in [Elements -> MaskValues]}

\* elementVisibility = {} when omitted; elementVisibility[atom.element]
MaskGet(elementVisibility, element) ==
    IF elementVisibility.given THEN elementVisibility.map[element] ELSE "absent"

\* (mutant) a truthiness test: a missing key and 0 hide the element too
IsVisibleTruthy(elementVisibility, element) == MaskGet(elementVisibility, element) = "true"

\* elementVisibility[atom.element] !== false
IsVisible(elementVisibility, element) == MaskGet(elementVisibility, element) # "false"

\* { ...object, ...overrides }: the properties of both, overrides winning
Spread(object, overrides) ==
    [f \in DOMAIN object \cup DOMAIN overrides |->
        IF f \in DOMAIN overrides THEN overrides[f] ELSE object[f]]

\* (mutant) the spread written last: { originalIndex: index, visible: ..., ...atom }
TaggedAtomsSpreadLast(molecule, elementVisibility) ==
    [i \in 1..Len(molecule.atoms) |->
        Spread([originalIndex |-> i - 1,
                visible |-> IsVisible(elementVisibility, molecule.atoms[i].element)],
               molecule.atoms[i])]

\* .map((atom, index) => ({...atom, originalIndex: index, visible: ...}))
TaggedAtoms(molecule, elementVisibility) ==
    [i \in 1..Len(molecule.atoms) |->
        Spread(molecule.atoms[i],
               [originalIndex |-> i - 1,
                visible |-> IsVisible(elementVisibility, molecule.atoms[i].element)])]

\* .filter(atom => atom.visible)
VisibleAtoms(molecule, elementVisibility) ==
    SelectSeq(TaggedAtoms(molecule, elementVisibility), LAMBDA a : a.visible)

\* new Set(this.atoms.map(a => a.originalIndex))
VisibleIndices(sceneAtoms) == {sceneAtoms[i].originalIndex : i \in 1..Len(sceneAtoms)}

\* (mutant) a bond is kept when either endpoint is visible
VisibleBondsEither(molecule, sceneAtoms) ==
    SelectSeq(molecule.bonds,
              LAMBDA b : b.from \in VisibleIndices(sceneAtoms)
                         \/ b.to \in VisibleIndices(sceneAtoms))

\* molecule.bonds.filter(bond => visibleIndices.has(bond.from) && visibleIndices.has(bond.to))
VisibleBonds(molecule, sceneAtoms) ==
    SelectSeq(molecule.bonds,
              LAMBDA b : b.from \in VisibleIndices(sceneAtoms)
                         /\ b.to \in VisibleIndices(sceneAtoms))

\* (mutant) a load that filters the argument's atom list in place
MoleculeFilteredInPlace(molecule, elementVisibility) ==
    [molecule EXCEPT !.atoms =
        SelectSeq(molecule.atoms, LAMBDA a : IsVisible(elementVisibility, a.element))]

\* The argument object after setMolecule: map and filter build new arrays and
\* the spread copies each atom, so nothing is written to molecule.
MoleculeAfterLoad(molecule, elementVisibility) == molecule

\* the objects held, after setMolecule(molecule, elementVisibility)
DatasetAfterLoad(d, molecule, elementVisibility) ==
    [id \in DOMAIN d |->
        IF Dataset[id] = molecule /\ MoleculeAfterLoad(molecule, elementVisibility) # molecule
        THEN "written" ELSE d[id]]

\* elementVisibility shows an element of the molecule that before hid
ShowsHidden(molecule, before, elementVisibility) ==
    \E i \in 1..Len(molecule.atoms) :
        /\ ~IsVisible(before, molecule.atoms[i].element)
        /\ IsVisible(elementVisibility, molecule.atoms[i].element)

----------------------------------------------------------------------------
(* The camera *)

Rot(x, y) == [x |-> x, y |-> y]

\* constructor and resetView: { x: 0.5, y: 0.5 }
DefaultRotation == Rot(Num(50, 0), Num(50, 0))

\* setView: const views = { front: ..., top: ..., side: ..., iso: ... }
ViewsLiteral ==
    [front |-> Rot(Num(0, 0), Num(0, 0)),
     top   |-> Rot(Num(0, 1), Num(0, 0)),
     side  |-> Rot(Num(0, 0), Num(0, 1)),
     iso   |-> Rot(Num(50, 0), Num(50, 0))]

ViewKeys == DOMAIN ViewsLiteral

\* Keys every object literal inherits from Object.prototype.  views.constructor
\* is the global Object function: a truthy value with no x and no y.
InheritedKeys == {"constructor"}

\* the names setView is called with
ViewNames == ViewKeys \cup InheritedKeys \cup {"bogus"}

\* (mutant) one table shared by all calls, as if views were built once
ViewsShared(saved) == saved

\* The table a call of setView works on: a new object literal on every call.
\* (saved is the table of the previous call, which the code does not keep.)
\* A table stays alive only through this.rotation; once this.rotation refers
\* to another object the variable views is set back to the literal.
Views(saved) == ViewsLiteral

\* Math.cos and Math.sin of undefined or NaN are NaN, and so are the projected
\* coordinates
RotationIsFinite(r) == IsNumber(r.x) /\ IsNumber(r.y)

----------------------------------------------------------------------------
(* Element appearance: getElementColor and getElementRadius *)

\* JavaScript values: a string, a number of hundredths, NaN, undefined, a
\* function or an object (named by s)
JSString(s) == [k |-> "string", s |-> s, h |-> 0]
JSNumber(h) == [k |-> "number", s |-> "", h |-> h]
JSNaN == [k |-> "NaN", s |-> "", h |-> 0]
JSUndefined == [k |-> "undefined", s |-> "", h |-> 0]
JSFunction(s) == [k |-> "function", s |-> s, h |-> 0]
JSObject(s) == [k |-> "object", s |-> s, h |-> 0]

\* getElementColor: const colors = { ... }
Colors ==
    [H  |-> JSString("#FFFFFF"), C  |-> JSString("#909090"),
     N  |-> JSString("#3050F8"), O  |-> JSString("#FF0D0D"),
     F  |-> JSString("#90E050"), Cl |-> JSString("#1FF01F"),
     Br |-> JSString("#A62929"), I  |-> JSString("#940094"),
     P  |-> JSString("#FF8000"), S  |-> JSString("#FFFF30"),
     B  |-> JSString("#FFB5B5"), Si |-> JSString("#F0C8A0")]

\* getElementRadius: const radii = { ... }, in hundredths
Radii ==
    [H  |-> JSNumber(31),  C  |-> JSNumber(70),  N  |-> JSNumber(65),
     O  |-> JSNumber(60),  F  |-> JSNumber(50),  Cl |-> JSNumber(100),
     Br |-> JSNumber(120), I  |-> JSNumber(140), P  |-> JSNumber(100),
     S  |-> JSNumber(100), B  |-> JSNumber(90),  Si |-> JSNumber(110)]

\* What an object literal inherits: Object.prototype's properties (three of them)
ObjectPrototypeKeys == {"constructor", "toString", "__proto__"}
ObjectPrototype ==
    [key \in ObjectPrototypeKeys |->
        CASE key = "constructor" -> JSFunction("Object")
          [] key = "toString" -> JSFunction("toString")
          [] key = "__proto__" -> JSObject("Object.prototype")]

\* table[key] on an object literal: an own property, an inherited one, or undefined
GetProperty(table, key) ==
    IF key \in DOMAIN table THEN table[key]
    ELSE IF key \in ObjectPrototypeKeys THEN ObjectPrototype[key]
    ELSE JSUndefined

Truthy(v) ==
    \/ v.k \in {"function", "object"}
    \/ v.k = "string" /\ v.s # ""
    \/ v.k = "number" /\ v.h # 0

\* found || fallback
OrElse(found, fallback) == IF Truthy(found) THEN found ELSE fallback

\* v * 20: a number for a number, NaN for a function or an object
Times20(v) == IF v.k = "number" THEN JSNumber(v.h * 20) ELSE JSNaN

\* return colors[element] || '#808080'
GetElementColor(element) == OrElse(GetProperty(Colors, element), JSString("#808080"))

\* return (radii[element] || 0.70) * 20
GetElementRadius(element) == Times20(OrElse(GetProperty(Radii, element), JSNumber(70)))

\* the symbols the lookups are called with: the table's, symbols of no table
\* entry, the empty string, and names of inherited properties
Symbols == DOMAIN Colors \cup {"He", "Xx", "h", ""} \cup ObjectPrototypeKeys

NoCall == [called |-> FALSE, element |-> "", value |-> JSUndefined]

----------------------------------------------------------------------------
(* The API server: values *)

\* new Map()
EmptyMap == [key \in {} |-> key]

\* map.set(key, value) and map.delete(key)
MapSet(map, key, value) ==
    [k \in DOMAIN map \cup {key} |-> IF k = key THEN value ELSE map[k]]
MapDelete(map, key) == [k \in DOMAIN map \ {key} |-> map[k]]
MapValues(map) == {map[k] : k \in DOMAIN map}

\* req.body.username: a name, or "" for an empty or missing one
Usernames == {"alice", "bob"}

\* req.body.password: missing, or a string.  bcryptjs reads the first 72
\* bytes of a password and nothing after them: a string is kept as those
\* bytes (head) and the rest (tail).
NoPassword == [k |-> "undefined", head |-> "", tail |-> ""]
Password(head, tail) == [k |-> "string", head |-> head, tail |-> tail]
Passwords ==
    {NoPassword, Password("", ""), Password("pass1", ""),
     Password("long", "a"), Password("long", "b")}

\* !password
IsFalsy(password) == password.k = "undefined" \/ (password.head = "" /\ password.tail = "")

\* await bcrypt.hash(password, 10), for a string: the hash is a function of
\* the salt (left out: nothing reads it) and of the first 72 bytes
NoHash == [head |-> ""]
BcryptHash(password) == [head |-> password.head]

\* await bcrypt.compare(password, hash): rejects ("Illegal arguments") when
\* password is no string, else tells whether hash is a hash of its first 72 bytes
BcryptCompare(password, hash) ==
    IF password.k # "string" THEN "rejects"
    ELSE IF password.head = hash.head THEN "true" ELSE "false"

\* res.status(status).json(...): the error, the token's username, and the
\* visualizations of the body ("" and {} where the body has none)
Response(status, error, token, body) ==
    [status |-> status, error |-> error, token |-> token, body |-> body]
NoResponse == Response(0, "", "", {})

\* a request between its await and the promise's resolution; inflight maps
\* the slots in use to the requests waiting
Slots == {"first", "second"}
Waiting(op, username, password, hash) ==
    [op |-> op, username |-> username, password |-> password, hash |-> hash]

\* req.headers['authorization']: missing, or a value whose second word is
\* missing, a string that does not verify, or a token the server signed
NoToken == [k |-> "none", username |-> ""]
InvalidToken == [k |-> "invalid", username |-> ""]
SignedToken(username) == [k |-> "signed", username |-> username]
NoHeader == [present |-> FALSE, token |-> NoToken]
Header(token) == [present |-> TRUE, token |-> token]
Headers ==
    {NoHeader, Header(NoToken), Header(InvalidToken)}
        \cup {Header(SignedToken(u)) : u \in Usernames}

----------------------------------------------------------------------------
(* render() *)

Frame(kind, a, b, r, z) ==
    [kind |-> kind, atoms |-> a, bonds |-> b, rotation |-> r, zoom |-> z]

\* the canvas after clearRect alone, and before the first render
Blank == Frame("blank", <<>>, <<>>, DefaultRotation, One)

\* How render() can end.  With a finite camera it returns.  With NaN
\* coordinates the bonds and arcs draw nothing, and createRadialGradient
\* (called once per atom) is given non-finite arguments: a browser canvas
\* throws a TypeError there, a stubbed context returns.
RenderOutcomes(a, r) ==
    IF RotationIsFinite(r) \/ a = <<>> THEN {"returns"} ELSE {"returns", "throws"}

\* Math.sin(h * 0.01) and Math.cos(h * 0.01) in thousandths, from the first
\* terms of their series (good to a thousandth for |h| <= 60)
SinHundredths(h) ==
    LET a == Abs(h)
        s == 10 * a - (a * a * a) \div 6000 + (a * a * a * a * a) \div 1200000000
    IN  IF h < 0 THEN -s ELSE s

CosHundredths(h) ==
    LET a == Abs(h)
    IN  1000 - (a * a) \div 20 + (a * a * a * a) \div 2400000

\* Math.sin and Math.cos of the angle h * 0.01 + q * (pi/2), in thousandths
Sin(v) ==
    CASE v.q % 4 = 0 -> SinHundredths(v.h)
      [] v.q % 4 = 1 -> CosHundredths(v.h)
      [] v.q % 4 = 2 -> -SinHundredths(v.h)
      [] v.q % 4 = 3 -> -CosHundredths(v.h)

Cos(v) ==
    CASE v.q % 4 = 0 -> CosHundredths(v.h)
      [] v.q % 4 = 1 -> -SinHundredths(v.h)
      [] v.q % 4 = 2 -> -CosHundredths(v.h)
      [] v.q % 4 = 3 -> SinHundredths(v.h)

\* project3D: z1 = x * sinY + z * cosY; z2 = y * sinX + z1 * cosX; z: z2.
\* Only the depth is kept, a number (in units of 10^-8) or NaN: the screen
\* position of a point is finite when the rotation is, and NaN when it is not.
Project3D(x, y, z, r) ==
    IF RotationIsFinite(r)
    THEN [z |-> [k |-> "num",
                 v |-> y * Sin(r.x) * 1000 + (x * Sin(r.y) + z * Cos(r.y)) * Cos(r.x)]]
    ELSE [z |-> [k |-> "NaN", v |-> 0]]

\* this.atoms.map(atom => ({...atom, pos: this.project3D(atom.x, atom.y, atom.z)}))
ProjectedAtoms(a, r) ==
    [i \in 1..Len(a) |-> Spread(a[i], [pos |-> Project3D(a[i].x, a[i].y, a[i].z, r)])]

\* (a, b) => a.pos.z - b.pos.z, as sort reads it: a NaN counts as 0
CompareDepth(a, b) ==
    IF a.pos.z.k = "num" /\ b.pos.z.k = "num" THEN a.pos.z.v - b.pos.z.v ELSE 0

\* Array.prototype.sort is stable: an element goes behind those before it in
\* the array that do not compare greater
InsertByDepth(sorted, atom) ==
    SelectSeq(sorted, LAMBDA e : CompareDepth(e, atom) <= 0)
        \o <<atom>>
        \o SelectSeq(sorted, LAMBDA e : CompareDepth(e, atom) > 0)

RECURSIVE SortByDepth(_)
SortByDepth(projected) ==
    IF projected = <<>> THEN <<>>
    ELSE InsertByDepth(SortByDepth(SubSeq(projected, 1, Len(projected) - 1)),
                       projected[Len(projected)])

\* (mutant) a sort of this.atoms itself: the scene is left in depth order
AtomsSortedInPlace(a, r) ==
    LET sorted == SortByDepth(ProjectedAtoms(a, r))
    IN  [i \in 1..Len(a) |->
            [f \in DOMAIN a[i] |-> sorted[i][f]]]

\* this.atoms after render(): map builds a new array and sort works on it, so
\* the scene keeps its order
AtomsAfterRender(a, r) == a

\* projectedAtoms.find(a => a.originalIndex === index) finds an atom
Found(projected, index) == \E i \in 1..Len(projected) : projected[i].originalIndex = index

\* what reaches the canvas: moveTo, lineTo, arc and fillText return without
\* effect when a coordinate is not finite
Background == [op |-> "background"]
Line(bond) == [op |-> "line", from |-> bond.from, to |-> bond.to, lineWidth |-> bond.order * 2]
Disc(atom) == [op |-> "atom", originalIndex |-> atom.originalIndex, element |-> atom.element]

\* this.bonds.forEach: a line for each bond whose two atoms are found
BondLines(b, projected) ==
    LET joined == SelectSeq(b, LAMBDA bond : Found(projected, bond.from) /\ Found(projected, bond.to))
    IN  [i \in 1..Len(joined) |-> Line(joined[i])]

\* projectedAtoms.forEach: shadow, sphere, outline and label of each atom
AtomDiscs(sorted) == [i \in 1..Len(sorted) |-> Disc(sorted[i])]

\* The drawing operations of render() on (a, b, r, z) that change the canvas,
\* in order.  With a rotation that is not finite only the background is drawn,
\* whether createRadialGradient throws or not.
DrawOps(a, b, r, z) ==
    IF RotationIsFinite(r)
    THEN <<Background>> \o BondLines(b, SortByDepth(ProjectedAtoms(a, r)))
                        \o AtomDiscs(SortByDepth(ProjectedAtoms(a, r)))
    ELSE <<Background>>

\* what was drawn on the canvas since it was last cleared
Drawn(frame) ==
    IF frame.kind = "blank" THEN <<>>
    ELSE DrawOps(frame.atoms, frame.bonds, frame.rotation, frame.zoom)

\* the handler calls render() on the state (a, b, r, z)
Rendered(a, b, r, z, outcome) ==
    /\ outcome \in RenderOutcomes(a, r)
    /\ surface' = Frame(IF outcome = "returns" THEN "frame" ELSE "partial", a, b, r, z)
    /\ renderCount' = 1
    /\ threw' = (outcome = "throws")

\* the handler returns without calling render()
NotRendered ==
    /\ surface' = surface
    /\ renderCount' = 0
    /\ threw' = FALSE

\* an assignment through this.rotation (this.rotation.y += ...) changes the
\* object it refers to
WriteRotation(new) ==
    /\ rotation' = new
    /\ rotRef' = rotRef
    /\ views' = IF rotRef \in ViewKeys THEN [views EXCEPT ![rotRef] = new] ELSE views
    /\ objectProps' = IF rotRef \in InheritedKeys THEN new ELSE objectProps

RotationUnchanged == UNCHANGED <<rotation, rotRef, views, objectProps>>
SceneUnchanged == UNCHANGED <<atoms, bonds, loaded, dataset, reloaded>>
DragUnchanged == UNCHANGED <<isDragging, lastX, lastY>>
SpinUnchanged == UNCHANGED <<spinning, pending>>
ZoomUnchanged == UNCHANGED <<zoom, zoomOps>>

\* everything the viewer object, its handlers and the page hold
ViewerUnchanged ==
    UNCHANGED <<atoms, bonds, rotation, rotRef, views, objectProps, zoom, spinning,
                isDragging, lastX, lastY, pending, surface, renderCount, threw, fired,
                defaultPrevented, zoomOps, loaded, dataset, reloaded>>

LookupUnchanged == UNCHANGED <<lastColor, lastRadius>>

ServerUnchanged ==
    UNCHANGED <<users, registeredWith, savedVisualizations, now, inflight, issued, response>>

\* what no handler of the viewer writes
ElsewhereUnchanged == LookupUnchanged /\ ServerUnchanged

\* what no handler of the server writes
PageUnchanged == ViewerUnchanged /\ LookupUnchanged

----------------------------------------------------------------------------
(* The state after new Simple3DMolecule(canvasId) *)

NoMolecule == [called |-> FALSE, molecule |-> NullMolecule, elementVisibility |-> OmittedMask]

Init ==
    /\ atoms = <<>>
    /\ bonds = <<>>
    /\ rotation = DefaultRotation
    /\ rotRef = "literal"
    /\ views = ViewsLiteral
    /\ objectProps = Rot(Undefined, Undefined)
    /\ zoom = One
    /\ spinning = FALSE
    /\ isDragging = FALSE
    /\ lastX = 0
    /\ lastY = 0
    /\ pending = 0
    /\ surface = Blank
    /\ renderCount = 0
    /\ threw = FALSE
    /\ fired = FALSE
    /\ defaultPrevented = FALSE
    /\ zoomOps = 0
    /\ loaded = NoMolecule
    /\ dataset = Intact
    /\ reloaded = FALSE
    /\ lastColor = NoCall
    /\ lastRadius = NoCall
    /\ users = EmptyMap
    /\ registeredWith = EmptyMap
    /\ savedVisualizations = EmptyMap
    /\ now = 1
    /\ inflight = EmptyMap
    /\ issued = {}
    /\ response = NoResponse

----------------------------------------------------------------------------
(* A direct call of render() *)

Render ==
    /\ fired' = FALSE
    /\ ElsewhereUnchanged
    /\ defaultPrevented' = FALSE
    /\ atoms' = AtomsAfterRender(atoms, rotation)
    /\ UNCHANGED <<bonds, loaded, dataset, reloaded>>
    /\ \E outcome \in {"returns", "throws"} :
           Rendered(atoms', bonds, rotation, zoom, outcome)
    /\ RotationUnchanged /\ SpinUnchanged /\ ZoomUnchanged /\ DragUnchanged

----------------------------------------------------------------------------
(* Pointer and wheel handlers (setupInteraction) *)

Pos == 0..MaxPos

\* (mutant) a mousedown that stops the spin
MouseDownStopsSpin(clientX, clientY) ==
    /\ fired' = FALSE
    /\ ElsewhereUnchanged
    /\ defaultPrevented' = FALSE
    /\ isDragging' = TRUE
    /\ lastX' = clientX
    /\ lastY' = clientY
    /\ spinning' = FALSE
    /\ UNCHANGED pending
    /\ NotRendered
    /\ RotationUnchanged /\ SceneUnchanged /\ ZoomUnchanged

MouseDown(clientX, clientY) ==
    /\ fired' = FALSE
    /\ ElsewhereUnchanged
    /\ defaultPrevented' = FALSE
    /\ isDragging' = TRUE
    /\ lastX' = clientX
    /\ lastY' = clientY
    /\ NotRendered
    /\ RotationUnchanged /\ SceneUnchanged /\ SpinUnchanged /\ ZoomUnchanged

\* this.rotation.y += dx * 0.01; this.rotation.x += dy * 0.01
Dragged(r, dx, dy) == Rot(AddHundredths(r.x, dy), AddHundredths(r.y, dx))

\* (mutant) a mousemove handler without the test of isDragging
MouseMoveAlways(clientX, clientY) ==
    /\ fired' = FALSE
    /\ ElsewhereUnchanged
    /\ defaultPrevented' = FALSE
    /\ AngleInBounds(Dragged(rotation, clientX - lastX, clientY - lastY).x)
    /\ AngleInBounds(Dragged(rotation, clientX - lastX, clientY - lastY).y)
    /\ WriteRotation(Dragged(rotation, clientX - lastX, clientY - lastY))
    /\ lastX' = clientX
    /\ lastY' = clientY
    /\ isDragging' = isDragging
    /\ \E outcome \in {"returns", "throws"} :
           Rendered(atoms, bonds, rotation', zoom, outcome)
    /\ SceneUnchanged /\ SpinUnchanged /\ ZoomUnchanged

MouseMove(clientX, clientY) ==
    /\ fired' = FALSE
    /\ ElsewhereUnchanged
    /\ defaultPrevented' = FALSE
    /\ IF isDragging
       THEN /\ AngleInBounds(Dragged(rotation, clientX - lastX, clientY - lastY).x)
            /\ AngleInBounds(Dragged(rotation, clientX - lastX, clientY - lastY).y)
            /\ WriteRotation(Dragged(rotation, clientX - lastX, clientY - lastY))
            /\ lastX' = clientX
            /\ lastY' = clientY
            /\ isDragging' = isDragging
            /\ \E outcome \in {"returns", "throws"} :
                   Rendered(atoms, bonds, rotation', zoom, outcome)
       ELSE /\ RotationUnchanged /\ DragUnchanged /\ NotRendered
    /\ SceneUnchanged /\ SpinUnchanged /\ ZoomUnchanged

MouseUp ==
    /\ fired' = FALSE
    /\ ElsewhereUnchanged
    /\ defaultPrevented' = FALSE
    /\ isDragging' = FALSE
    /\ UNCHANGED <<lastX, lastY>>
    /\ NotRendered
    /\ RotationUnchanged /\ SceneUnchanged /\ SpinUnchanged /\ ZoomUnchanged

\* e.preventDefault() comes first
Wheel(deltaY, budget) ==
    /\ fired' = FALSE
    /\ ElsewhereUnchanged
    /\ defaultPrevented' = TRUE
    /\ zoomOps < budget
    /\ FracFits(WheelZoom(zoom, deltaY))
    /\ zoom' = WheelZoom(zoom, deltaY)
    /\ zoomOps' = zoomOps + 1
    /\ \E outcome \in {"returns", "throws"} :
           Rendered(atoms, bonds, rotation, zoom', outcome)
    /\ RotationUnchanged /\ SceneUnchanged /\ SpinUnchanged /\ DragUnchanged

----------------------------------------------------------------------------
(* Scene operations *)

\* (mutant) a clear() that empties the scene and leaves the canvas as it was
ClearKeepsSurface ==
    /\ fired' = FALSE
    /\ ElsewhereUnchanged
    /\ defaultPrevented' = FALSE
    /\ atoms' = <<>>
    /\ bonds' = <<>>
    /\ NotRendered
    /\ loaded' = NoMolecule
    /\ UNCHANGED dataset
    /\ reloaded' = FALSE
    /\ RotationUnchanged /\ SpinUnchanged /\ ZoomUnchanged /\ DragUnchanged

Clear ==
    /\ fired' = FALSE
    /\ ElsewhereUnchanged
    /\ defaultPrevented' = FALSE
    /\ atoms' = <<>>
    /\ bonds' = <<>>
    /\ surface' = Blank
    /\ renderCount' = 0
    /\ threw' = FALSE
    /\ loaded' = NoMolecule
    /\ UNCHANGED dataset
    /\ reloaded' = FALSE
    /\ RotationUnchanged /\ SpinUnchanged /\ ZoomUnchanged /\ DragUnchanged

\* this.clear() runs first; reading molecule.atoms of null or undefined throws
\* a TypeError, which leaves what clear() did
SetMolecule(molecule, elementVisibility) ==
    /\ fired' = FALSE
    /\ ElsewhereUnchanged
    /\ defaultPrevented' = FALSE
    /\ loaded' = [called |-> TRUE, molecule |-> molecule,
                  elementVisibility |-> elementVisibility]
    /\ dataset' = DatasetAfterLoad(dataset, molecule, elementVisibility)
    /\ reloaded' = /\ loaded.called /\ loaded.molecule = molecule
                   /\ ShowsHidden(molecule, loaded.elementVisibility, elementVisibility)
    /\ IF molecule.isNull
       THEN /\ atoms' = <<>>
            /\ bonds' = <<>>
            /\ surface' = Blank
            /\ renderCount' = 0
            /\ threw' = TRUE
       ELSE /\ atoms' = VisibleAtoms(molecule, elementVisibility)
            /\ bonds' = VisibleBonds(molecule, atoms')
            /\ \E outcome \in {"returns", "throws"} :
                   Rendered(atoms', bonds', rotation, zoom, outcome)
    /\ RotationUnchanged /\ SpinUnchanged /\ ZoomUnchanged /\ DragUnchanged

----------------------------------------------------------------------------
(* Camera operations *)

\* if (views[view]) { this.rotation = views[view]; this.render(); }
\* views[view] is an own entry, an inherited property, or undefined
SetView(view) ==
    /\ fired' = FALSE
    /\ ElsewhereUnchanged
    /\ defaultPrevented' = FALSE
    /\ IF view \in ViewKeys
       THEN /\ rotation' = Views(views)[view]
            /\ rotRef' = view
            /\ views' = Views(views)
            /\ UNCHANGED objectProps
            /\ \E outcome \in {"returns", "throws"} :
                   Rendered(atoms, bonds, rotation', zoom, outcome)
       ELSE IF view \in InheritedKeys
       THEN /\ rotation' = objectProps
            /\ rotRef' = view
            /\ views' = ViewsLiteral
            /\ UNCHANGED objectProps
            /\ \E outcome \in {"returns", "throws"} :
                   Rendered(atoms, bonds, rotation', zoom, outcome)
       ELSE /\ RotationUnchanged /\ NotRendered
    /\ SceneUnchanged /\ SpinUnchanged /\ ZoomUnchanged /\ DragUnchanged

\* (mutant) a reset that restores the rotation and forgets the zoom
ResetViewKeepsZoom ==
    /\ fired' = FALSE
    /\ ElsewhereUnchanged
    /\ defaultPrevented' = FALSE
    /\ rotation' = DefaultRotation
    /\ rotRef' = "literal"
    /\ views' = ViewsLiteral
    /\ UNCHANGED objectProps
    /\ UNCHANGED <<zoom, zoomOps>>
    /\ Rendered(atoms, bonds, rotation', zoom', "returns")
    /\ SceneUnchanged /\ SpinUnchanged /\ DragUnchanged

\* (mutant) a reset that also stops the spin
ResetViewStopsSpin ==
    /\ fired' = FALSE
    /\ ElsewhereUnchanged
    /\ defaultPrevented' = FALSE
    /\ rotation' = DefaultRotation
    /\ rotRef' = "literal"
    /\ views' = ViewsLiteral
    /\ UNCHANGED objectProps
    /\ zoom' = One
    /\ zoomOps' = 0
    /\ spinning' = FALSE
    /\ UNCHANGED pending
    /\ Rendered(atoms, bonds, rotation', zoom', "returns")
    /\ SceneUnchanged /\ DragUnchanged

ResetView ==
    /\ fired' = FALSE
    /\ ElsewhereUnchanged
    /\ defaultPrevented' = FALSE
    /\ rotation' = DefaultRotation
    /\ rotRef' = "literal"
    /\ views' = ViewsLiteral
    /\ UNCHANGED objectProps
    /\ zoom' = One
    /\ zoomOps' = 0
    /\ Rendered(atoms, bonds, rotation', zoom', "returns")
    /\ SceneUnchanged /\ SpinUnchanged /\ DragUnchanged

ZoomIn(budget) ==
    /\ fired' = FALSE
    /\ ElsewhereUnchanged
    /\ defaultPrevented' = FALSE
    /\ zoomOps < budget
    /\ FracFits(ZoomInValue(zoom))
    /\ zoom' = ZoomInValue(zoom)
    /\ zoomOps' = zoomOps + 1
    /\ \E outcome \in {"returns", "throws"} :
           Rendered(atoms, bonds, rotation, zoom', outcome)
    /\ RotationUnchanged /\ SceneUnchanged /\ SpinUnchanged /\ DragUnchanged

ZoomOut(budget) ==
    /\ fired' = FALSE
    /\ ElsewhereUnchanged
    /\ defaultPrevented' = FALSE
    /\ zoomOps < budget
    /\ FracFits(ZoomOutValue(zoom))
    /\ zoom' = ZoomOutValue(zoom)
    /\ zoomOps' = zoomOps + 1
    /\ \E outcome \in {"returns", "throws"} :
           Rendered(atoms, bonds, rotation, zoom', outcome)
    /\ RotationUnchanged /\ SceneUnchanged /\ SpinUnchanged /\ DragUnchanged

----------------------------------------------------------------------------
(* Spin *)

\* this.rotation.y += 0.02
SpinStep(r) == Rot(r.x, AddHundredths(r.y, 2))

\* The body of the spin closure when this.spinning is true: rotate, render,
\* requestAnimationFrame(spin).  queued is the number of callbacks waiting
\* once this one is off the queue.  A render() that throws ends the closure
\* before it requests the next frame.
SpinBody(queued) ==
    /\ AngleInBounds(SpinStep(rotation).y)
    /\ WriteRotation(SpinStep(rotation))
    /\ \E outcome \in {"returns", "throws"} :
           /\ Rendered(atoms, bonds, rotation', zoom, outcome)
           /\ pending' = IF outcome = "returns" THEN queued + 1 ELSE queued

\* this.spinning = true; spin()
StartSpin ==
    /\ fired' = FALSE
    /\ ElsewhereUnchanged
    /\ defaultPrevented' = FALSE
    /\ pending < MaxPending
    /\ spinning' = TRUE
    /\ SpinBody(pending)
    /\ SceneUnchanged /\ ZoomUnchanged /\ DragUnchanged

StopSpin ==
    /\ fired' = FALSE
    /\ ElsewhereUnchanged
    /\ defaultPrevented' = FALSE
    /\ spinning' = FALSE
    /\ UNCHANGED pending
    /\ NotRendered
    /\ RotationUnchanged /\ SceneUnchanged /\ ZoomUnchanged /\ DragUnchanged

ToggleSpin == IF spinning THEN StopSpin ELSE StartSpin

\* (mutant) a callback that does not look at this.spinning when it fires
TickUnchecked ==
    /\ pending > 0
    /\ fired' = TRUE
    /\ ElsewhereUnchanged
    /\ defaultPrevented' = FALSE
    /\ UNCHANGED spinning
    /\ SpinBody(pending - 1)
    /\ SceneUnchanged /\ ZoomUnchanged /\ DragUnchanged

\* (mutant) requestAnimationFrame(spin) written after the if: a callback that
\* finds this.spinning false still requests the next frame
TickRequestsAlways ==
    /\ pending > 0
    /\ fired' = TRUE
    /\ ElsewhereUnchanged
    /\ defaultPrevented' = FALSE
    /\ UNCHANGED spinning
    /\ IF spinning
       THEN SpinBody(pending - 1)
       ELSE /\ pending' = pending
            /\ RotationUnchanged
            /\ NotRendered
    /\ SceneUnchanged /\ ZoomUnchanged /\ DragUnchanged

\* the browser runs one spin callback of the animation-frame queue
Tick ==
    /\ pending > 0
    /\ fired' = TRUE
    /\ ElsewhereUnchanged
    /\ defaultPrevented' = FALSE
    /\ UNCHANGED spinning
    /\ IF spinning
       THEN SpinBody(pending - 1)
       ELSE /\ pending' = pending - 1
            /\ RotationUnchanged
            /\ NotRendered
    /\ SceneUnchanged /\ ZoomUnchanged /\ DragUnchanged

----------------------------------------------------------------------------
(* Direct calls of the appearance lookups *)

CallGetElementColor(element) ==
    /\ lastColor' = [called |-> TRUE, element |-> element, value |-> GetElementColor(element)]
    /\ UNCHANGED lastRadius
    /\ ViewerUnchanged /\ ServerUnchanged

CallGetElementRadius(element) ==
    /\ lastRadius' = [called |-> TRUE, element |-> element, value |-> GetElementRadius(element)]
    /\ UNCHANGED lastColor
    /\ ViewerUnchanged /\ ServerUnchanged

----------------------------------------------------------------------------
(* The API server: authentication routes *)

\* POST /api/auth/register, up to await bcrypt.hash(password, 10)
RegisterReceive(slot, username, password) ==
    /\ slot \notin DOMAIN inflight
    /\ IF username = "" \/ IsFalsy(password)
       THEN /\ response' = Response(400, "Username and password required", "", {})
            /\ UNCHANGED inflight
       ELSE IF username \in DOMAIN users
       THEN /\ response' = Response(400, "Username already exists", "", {})
            /\ UNCHANGED inflight
       ELSE /\ response' = NoResponse
            /\ inflight' = MapSet(inflight, slot,
                                  Waiting("register", username, password, NoHash))
    /\ UNCHANGED <<users, registeredWith, savedVisualizations, now, issued>>
    /\ PageUnchanged

\* POST /api/auth/register, from the resolution of bcrypt.hash: users.set,
\* jwt.sign, res.json({ token, username })
RegisterFinish(slot) ==
    /\ slot \in DOMAIN inflight
    /\ inflight[slot].op = "register"
    /\ users' = MapSet(users, inflight[slot].username,
                       [username |-> inflight[slot].username,
                        password |-> BcryptHash(inflight[slot].password),
                        createdAt |-> now])
    /\ registeredWith' = MapSet(registeredWith, inflight[slot].username,
                                inflight[slot].password)
    /\ issued' = issued \cup {inflight[slot].username}
    /\ response' = Response(200, "", inflight[slot].username, {})
    /\ inflight' = MapDelete(inflight, slot)
    /\ UNCHANGED <<savedVisualizations, now>>
    /\ PageUnchanged

\* POST /api/auth/login, up to await bcrypt.compare(password, user.password)
LoginReceive(slot, username, password) ==
    /\ slot \notin DOMAIN inflight
    /\ IF username \notin DOMAIN users
       THEN /\ response' = Response(401, "Invalid credentials", "", {})
            /\ UNCHANGED inflight
       ELSE /\ response' = NoResponse
            /\ inflight' = MapSet(inflight, slot,
                                  Waiting("login", username, password,
                                          users[username].password))
    /\ UNCHANGED <<users, registeredWith, savedVisualizations, now, issued>>
    /\ PageUnchanged

\* POST /api/auth/login, from the end of bcrypt.compare: a rejection is
\* caught (500), false is answered 401, true signs a token
LoginFinish(slot) ==
    /\ slot \in DOMAIN inflight
    /\ inflight[slot].op = "login"
    /\ LET validPassword == BcryptCompare(inflight[slot].password, inflight[slot].hash)
       IN  /\ response' =
                  CASE validPassword = "rejects" -> Response(500, "Login failed", "", {})
                    [] validPassword = "false" -> Response(401, "Invalid credentials", "", {})
                    [] validPassword = "true" -> Response(200, "", inflight[slot].username, {})
           /\ issued' = IF validPassword = "true"
                        THEN issued \cup {inflight[slot].username} ELSE issued
    /\ inflight' = MapDelete(inflight, slot)
    /\ UNCHANGED <<users, registeredWith, savedVisualizations, now>>
    /\ PageUnchanged

----------------------------------------------------------------------------
(* The API server: saved visualizations *)

\* (mutant) a middleware that decodes the token without verifying it
AuthenticateTokenUnverified(header) ==
    IF ~header.present \/ header.token.k = "none"
    THEN [status |-> 401, error |-> "Access token required", username |-> ""]
    ELSE [status |-> 0, error |-> "", username |-> header.token.username]

\* authenticateToken: the response it sends, or status 0 and req.user.username
\* when it calls next()
AuthenticateToken(header) ==
    IF ~header.present \/ header.token.k = "none"
    THEN [status |-> 401, error |-> "Access token required", username |-> ""]
    ELSE IF header.token.k # "signed"
    THEN [status |-> 403, error |-> "Invalid or expired token", username |-> ""]
    ELSE [status |-> 0, error |-> "", username |-> header.token.username]

\* a token verifies only if the server signed it
Presentable(header) == header.token.k = "signed" => header.token.username \in issued

\* the visualizations GET /api/visualizations answers username with
VisualizationsOf(map, username) == {v \in MapValues(map) : v.username = username}

\* GET /api/visualizations
GetVisualizations(header) ==
    /\ Presentable(header)
    /\ response' =
           IF AuthenticateToken(header).status # 0
           THEN Response(AuthenticateToken(header).status, AuthenticateToken(header).error, "", {})
           ELSE Response(200, "", "",
                         VisualizationsOf(savedVisualizations, AuthenticateToken(header).username))
    /\ UNCHANGED <<users, registeredWith, savedVisualizations, now, inflight, issued>>
    /\ PageUnchanged

\* id: Date.now().toString()
NewId(time) == ToString(time)

\* POST /api/visualizations
PostVisualization(header, name, moleculeId) ==
    /\ Presentable(header)
    /\ IF AuthenticateToken(header).status # 0
       THEN /\ response' = Response(AuthenticateToken(header).status,
                                    AuthenticateToken(header).error, "", {})
            /\ UNCHANGED savedVisualizations
       ELSE IF name = "" \/ moleculeId = ""
       THEN /\ response' = Response(400, "Name and molecule ID required", "", {})
            /\ UNCHANGED savedVisualizations
       ELSE LET visualization ==
                    [id |-> NewId(now), username |-> AuthenticateToken(header).username,
                     name |-> name, moleculeId |-> moleculeId, createdAt |-> now]
            IN  /\ savedVisualizations' =
                       MapSet(savedVisualizations, visualization.id, visualization)
                /\ response' = Response(200, "", "", {visualization})
    /\ UNCHANGED <<users, registeredWith, now, inflight, issued>>
    /\ PageUnchanged

\* DELETE /api/visualizations/:id
DeleteVisualization(header, id) ==
    /\ Presentable(header)
    /\ IF AuthenticateToken(header).status # 0
       THEN /\ response' = Response(AuthenticateToken(header).status,
                                    AuthenticateToken(header).error, "", {})
            /\ UNCHANGED savedVisualizations
       ELSE IF id \notin DOMAIN savedVisualizations
       THEN /\ response' = Response(404, "Visualization not found", "", {})
            /\ UNCHANGED savedVisualizations
       ELSE IF savedVisualizations[id].username # AuthenticateToken(header).username
       THEN /\ response' = Response(403, "Not authorized", "", {})
            /\ UNCHANGED savedVisualizations
       ELSE /\ savedVisualizations' = MapDelete(savedVisualizations, id)
            /\ response' = Response(200, "", "", {})
    /\ UNCHANGED <<users, registeredWith, now, inflight, issued>>
    /\ PageUnchanged

\* the clock moves on between two requests
ClockTick ==
    /\ now < MaxNow
    /\ now' = now + 1
    /\ response' = NoResponse
    /\ UNCHANGED <<users, registeredWith, savedVisualizations, inflight, issued>>
    /\ PageUnchanged

----------------------------------------------------------------------------
(* Specifications *)

\* The interaction state machine: pointer gestures, named views, spin, with
\* one molecule to show.  The zoom stays at 1.
Next ==
    \/ \E x \in Pos, y \in Pos : MouseDown(x, y)
    \/ \E x \in Pos, y \in Pos : MouseMove(x, y)
    \/ MouseUp
    \/ \E view \in ViewNames : SetView(view)
    \/ ResetView
    \/ StartSpin
    \/ StopSpin
    \/ ToggleSpin
    \/ Tick
    \/ SetMolecule(Water, OmittedMask)

Spec == Init /\ [][Next]_vars

\* The zoom: every operation that writes this.zoom, up to MaxZoomOps
\* multiplications after a reset, dragging or not, spinning or not, with a
\* preset rotation and with the rotation setView("constructor") leaves.
ZoomViews == {"top", "constructor"}

NextZoom ==
    \/ \E deltaY \in WheelDeltas : Wheel(deltaY, MaxZoomOps)
    \/ ZoomIn(MaxZoomOps)
    \/ ZoomOut(MaxZoomOps)
    \/ ResetView
    \/ \E view \in ZoomViews : SetView(view)
    \/ MouseDown(0, 0)
    \/ MouseUp
    \/ ToggleSpin
    \/ Tick

SpecZoom == Init /\ [][NextZoom]_vars

\* The scene: every molecule under every mask, with a finite and with a
\* non-finite camera.
SceneViews == {"top", "constructor"}

NextScene ==
    \/ \E m \in Held(dataset), ev \in Masks : SetMolecule(m, ev)
    \/ Clear
    \/ \E view \in SceneViews : SetView(view)
    \/ ResetView

SpecScene == Init /\ [][NextScene]_vars

\* The appearance lookups, called with every symbol of Symbols
NextLookup ==
    \/ \E element \in Symbols : CallGetElementColor(element)
    \/ \E element \in Symbols : CallGetElementRadius(element)

SpecLookup == Init /\ [][NextLookup]_vars

\* The surface: every operation that writes the scene, the camera or the
\* canvas, with up to SurfaceZoomOps zoom steps after a reset.
SurfaceViews == {"top", "constructor", "bogus"}

NextSurface ==
    \/ \E m \in {NullMolecule, Water} : SetMolecule(m, OmittedMask)
    \/ Clear
    \/ \E view \in SurfaceViews : SetView(view)
    \/ ResetView
    \/ ZoomIn(SurfaceZoomOps)
    \/ ZoomOut(SurfaceZoomOps)
    \/ \E deltaY \in WheelDeltas : Wheel(deltaY, SurfaceZoomOps)
    \/ MouseDown(0, 0)
    \/ \E x \in Pos : MouseMove(x, 0)
    \/ MouseUp
    \/ StartSpin
    \/ StopSpin
    \/ Tick

SpecSurface == Init /\ [][NextSurface]_vars

\* Registration and login: every username with every password, up to two
\* requests waiting for bcryptjs at a time.
NextAuth ==
    \/ \E slot \in Slots, username \in Usernames \cup {""}, password \in Passwords :
           RegisterReceive(slot, username, password)
    \/ \E slot \in Slots : RegisterFinish(slot)
    \/ \E slot \in Slots, username \in Usernames \cup {""}, password \in Passwords :
           LoginReceive(slot, username, password)
    \/ \E slot \in Slots : LoginFinish(slot)

SpecAuth == Init /\ [][NextAuth]_vars

\* Saved visualizations: two users, every kind of Authorization header, with
\* the clock moving or not between requests.
VisualizationNames == {"", "view"}
MoleculeIds == {"", "water"}
VisualizationIds == {NewId(time) : time \in 1..MaxNow} \cup {"nonexistent"}

NextViz ==
    \/ \E username \in Usernames : RegisterReceive("first", username, Password("pass1", ""))
    \/ RegisterFinish("first")
    \/ \E header \in Headers : GetVisualizations(header)
    \/ \E header \in Headers, name \in VisualizationNames, moleculeId \in MoleculeIds :
           PostVisualization(header, name, moleculeId)
    \/ \E header \in Headers, id \in VisualizationIds : DeleteVisualization(header, id)
    \/ ClockTick

SpecViz == Init /\ [][NextViz]_vars

\* The spin and the frame queue: starts, stops and toggles in any order, with
\* drags and views moving the rotation in between.  The browser runs every
\* callback it was asked to run: a callback waiting in the animation-frame
\* queue fires at the next frame.
SpinViews == {"top", "constructor"}

NextSpin ==
    \/ StartSpin
    \/ StopSpin
    \/ ToggleSpin
    \/ Tick
    \/ \E view \in SpinViews : SetView(view)
    \/ ResetView
    \/ MouseDown(0, 0)
    \/ \E x \in Pos : MouseMove(x, 0)
    \/ MouseUp
    \/ SetMolecule(Water, OmittedMask)

SpecSpin == Init /\ [][NextSpin]_vars /\ WF_vars(Tick)

\* The drawing: molecules with atoms in and out of the plane and bonds of
\* order 1 and 2, with elements hidden or not, under the default rotation and
\* the views of RenderViews, with drags and the spin moving rotationY off the
\* presets, and render() called directly.
RenderMolecules == {Water, CarbonDioxide, Fragment, Methane}

RenderMasks ==
    {OmittedMask,
     Mask([e \in Elements |-> IF e = "C" THEN "false" ELSE "absent"]),
     Mask([e \in Elements |-> IF e = "O" THEN "false" ELSE "true"])}

RenderViews == {"front", "top", "side", "constructor"}

NextRender ==
    \/ \E m \in RenderMolecules, ev \in RenderMasks : SetMolecule(m, ev)
    \/ Clear
    \/ Render
    \/ \E view \in RenderViews : SetView(view)
    \/ ResetView
    \/ MouseDown(0, 0)
    \/ \E x \in Pos : MouseMove(x, 0)
    \/ MouseUp
    \/ ToggleSpin
    \/ Tick

SpecRender == Init /\ [][NextRender]_vars

----------------------------------------------------------------------------
(* Properties *)

InScene(b) == \E k \in 1..Len(bonds) : bonds[k] = b
EndpointsPresent(b) == b.from \in VisibleIndices(atoms) /\ b.to \in VisibleIndices(atoms)

\* C1: in every reachable state the stored zoom satisfies 0.1 <= zoom <= 5
\* (10 * n >= d and n <= 5 * d for the fraction n/d).
C1_ZoomWithinRange == 10 * zoom.n >= zoom.d /\ zoom.n <= 5 * zoom.d

\* a run of zoom steps that went below 0.1 and was clamped to it
C1_ClampedAtMin == zoom = ZoomMin /\ zoomOps > 0

\* C2: in every reachable state a bond of the loaded molecule is in the scene
\* iff both its endpoints are the originalIndex of an atom of the scene, and
\* every bond of the scene has both endpoints in the scene.
C2_BondIffEndpoints ==
    /\ \A k \in 1..Len(bonds) : EndpointsPresent(bonds[k])
    /\ loaded.called =>
         \A i \in 1..Len(loaded.molecule.bonds) :
             InScene(loaded.molecule.bonds[i]) <=> EndpointsPresent(loaded.molecule.bonds[i])

\* a load that keeps some bonds of the molecule and drops others
C2_SomeBondsDropped ==
    /\ loaded.called
    /\ Len(bonds) > 0
    /\ Len(bonds) < Len(loaded.molecule.bonds)
    /\ Len(atoms) < Len(loaded.molecule.atoms)

\* C3 (as claimed): no reachable state has a drag in progress while spinning
\* is true.
C3_DragExcludesSpin == ~(isDragging /\ spinning)

\* C3 (amended): a mousedown leaves the spinning flag and the queued spin
\* callbacks as they were, and a spin callback that fires during a drag while
\* spinning is true still rotates and renders.
C3_MouseDownKeepsSpin ==
    [][ /\ (\E x \in Pos, y \in Pos : MouseDown(x, y))
            => (spinning' = spinning /\ pending' = pending)
        /\ (fired' /\ isDragging /\ spinning)
            => (renderCount' = 1 /\ rotation'.y = AddHundredths(rotation.y, 2)) ]_vars

\* a spin callback has just fired during a drag
C3_TickDuringDrag == isDragging /\ spinning /\ fired /\ renderCount = 1

\* C4: a spin callback that fires while spinning is false changes neither the
\* rotation nor the surface, calls no render and requests no further frame.
C4_StoppedTickIsNoOp ==
    [][ (fired' /\ ~spinning)
            => /\ rotation' = rotation
               /\ rotRef' = rotRef
               /\ surface' = surface
               /\ renderCount' = 0
               /\ pending' = pending - 1 ]_vars

\* a callback has fired after stopSpin and did nothing
C4_TickAfterStop == fired /\ ~spinning /\ renderCount = 0

\* C5 (as claimed): while the absent molecule is the one loaded, the load has
\* not thrown and the scene is empty.  (With an empty scene no later handler
\* throws, so threw can only come from the load itself.)
C5_NullLoadReturns ==
    (loaded.called /\ loaded.molecule.isNull)
        => (~threw /\ atoms = <<>> /\ bonds = <<>>)

Hidden(elementVisibility, element) ==
    elementVisibility.given /\ elementVisibility.map[element] = "false"

\* C6: after setMolecule(molecule, mask) an atom of the molecule is in the
\* scene iff mask[atom.element] is not the boolean false (a missing key, true,
\* 0, or an omitted mask keep it), each scene atom is the molecule's atom at
\* its originalIndex, and the scene keeps the molecule's order.
C6_DefaultVisible ==
    (loaded.called /\ ~loaded.molecule.isNull) =>
        /\ \A i \in 1..Len(loaded.molecule.atoms) :
               (i - 1 \in VisibleIndices(atoms))
                   <=> ~Hidden(loaded.elementVisibility, loaded.molecule.atoms[i].element)
        /\ \A j \in 1..Len(atoms) :
               /\ atoms[j].originalIndex \in 0..(Len(loaded.molecule.atoms) - 1)
               /\ atoms[j].element = loaded.molecule.atoms[atoms[j].originalIndex + 1].element
        /\ \A j \in 1..Len(atoms), k \in 1..Len(atoms) :
               j < k => atoms[j].originalIndex < atoms[k].originalIndex

\* a load under a mask with a 0, a false and a missing key, one atom hidden
C6_MixedMask ==
    /\ loaded.called /\ ~loaded.molecule.isNull /\ loaded.elementVisibility.given
    /\ \E i \in 1..Len(loaded.molecule.atoms), j \in 1..Len(loaded.molecule.atoms) :
           /\ loaded.elementVisibility.map[loaded.molecule.atoms[i].element] = "zero"
           /\ loaded.elementVisibility.map[loaded.molecule.atoms[j].element] = "false"
           /\ i - 1 \in VisibleIndices(atoms)
           /\ j - 1 \notin VisibleIndices(atoms)
    /\ \E e \in Elements : loaded.elementVisibility.map[e] = "absent"

\* C7: resetView leaves rotation = (0.5, 0.5) and zoom = 1, whatever the state
\* it is called in.
C7_ResetRestoresDefaults ==
    [][ ResetView
            => /\ rotation' = Rot(Num(50, 0), Num(50, 0))
               /\ zoom' = [n |-> 1, d |-> 1] ]_vars

\* resetView has just run during a drag with the spin on (no other rendering
\* step leaves zoomOps = 0 and the rotation in the literal object)
C7_ResetWhileDraggingAndSpinning ==
    /\ isDragging /\ spinning /\ ~fired /\ renderCount = 1
    /\ rotRef = "literal" /\ zoomOps = 0 /\ pending > 0
    /\ rotation = DefaultRotation

\* C8 (as claimed): setView with a name other than front, top, side and iso
\* changes nothing: rotation, zoom, scene, drag and spin state are the same
\* after the call, the rotation is a pair of numbers, and nothing is rendered.
C8_UnknownViewIsNoOp ==
    [][ (\E view \in ViewNames \ {"front", "top", "side", "iso"} : SetView(view))
            => /\ UNCHANGED <<rotation, rotRef, zoom, atoms, bonds, spinning, pending,
                             isDragging, lastX, lastY, surface>>
               /\ IsNumber(rotation'.x) /\ IsNumber(rotation'.y)
               /\ renderCount' = 0 ]_vars

\* C9: setView with a known name sets the rotation to exactly its preset,
\* front (0, 0), top (pi/2, 0), side (0, pi/2), iso (0.5, 0.5), whatever
\* drags and spin callbacks came before.
C9_PresetExact ==
    [][ \A view \in {"front", "top", "side", "iso"} :
            SetView(view) => rotation' = ViewsLiteral[view] ]_vars

\* setView("top") has just run during a drag with the spin on, after earlier
\* rotation (the pointer has moved and a spin callback is queued)
C9_PresetAgain ==
    /\ rotRef = "top" /\ rotation = Rot(Num(0, 1), Num(0, 0))
    /\ renderCount = 1 /\ ~fired
    /\ isDragging /\ lastX = 1 /\ lastY = 1 /\ spinning /\ pending > 0

\* C10 (as claimed): during a drag each pointer move adds 0.01 * dx to
\* rotationY and 0.01 * dy to rotationX, as numbers, and records the position.
C10_DragAddsDelta ==
    [][ \A x \in Pos, y \in Pos :
            (isDragging /\ MouseMove(x, y))
                => /\ IsNumber(rotation'.y) /\ IsNumber(rotation'.x)
                   /\ rotation'.y.h = rotation.y.h + (x - lastX)
                   /\ rotation'.x.h = rotation.x.h + (y - lastY)
                   /\ rotation'.y.q = rotation.y.q
                   /\ rotation'.x.q = rotation.x.q
                   /\ lastX' = x /\ lastY' = y ]_vars

\* C11 (as claimed): for every element symbol that is not one of the twelve
\* table entries getElementColor returns the string '#808080' and
\* getElementRadius returns the number 14.
C11_UnknownGetsDefaults ==
    /\ (lastColor.called /\ lastColor.element \notin
            {"H", "C", "N", "O", "F", "Cl", "Br", "I", "P", "S", "B", "Si"})
           => lastColor.value = [k |-> "string", s |-> "#808080", h |-> 0]
    /\ (lastRadius.called /\ lastRadius.element \notin
            {"H", "C", "N", "O", "F", "Cl", "Br", "I", "P", "S", "B", "Si"})
           => lastRadius.value = [k |-> "number", s |-> "", h |-> 1400]

CameraOrSceneChanged ==
    rotation' # rotation \/ zoom' # zoom \/ atoms' # atoms \/ bonds' # bonds

C13_IndexInMolecule ==
    [][ /\ (loaded'.called /\ ~loaded'.molecule.isNull) =>
              /\ \A j \in 1..Len(atoms') :
                     /\ atoms'[j].originalIndex \in 0..(Len(loaded'.molecule.atoms) - 1)
                     /\ \A f \in {"element", "x", "y", "z"} :
                            atoms'[j][f] = loaded'.molecule.atoms[atoms'[j].originalIndex + 1][f]
              /\ \A j \in 1..Len(atoms'), k \in 1..Len(atoms') :
                     j # k => atoms'[j].originalIndex # atoms'[k].originalIndex
        /\ loaded' = loaded => atoms' = atoms ]_vars

\* a molecule whose atoms carry originalIndex 1 and 2 is loaded with the first
\* hidden; the remaining atom has originalIndex 1, and setView("top") has
\* rendered the scene
C13_CarriedIndexReplaced ==
    /\ loaded.called /\ loaded.molecule = Rescene
    /\ loaded.molecule.atoms[2].originalIndex = 2
    /\ Len(atoms) = 1 /\ atoms[1].element = "H" /\ atoms[1].originalIndex = 1
    /\ rotRef = "top" /\ surface.kind = "frame" /\ surface.rotation = rotation

\* C14: in every reachable state every object the page holds is as it was
\* made, and the scene is the one a first load of the loaded molecule under
\* the loaded mask gives: the atoms not hidden, retagged, and the bonds between
\* them - whatever was loaded before.
C14_SceneFromArguments ==
    /\ \A id \in DOMAIN dataset : dataset[id] = "intact"
    /\ (loaded.called /\ ~loaded.molecule.isNull) =>
          /\ atoms = VisibleAtoms(loaded.molecule, loaded.elementVisibility)
          /\ bonds = VisibleBonds(loaded.molecule,
                                  VisibleAtoms(loaded.molecule, loaded.elementVisibility))
          /\ \A i \in 1..Len(loaded.molecule.atoms) :
                 ~Hidden(loaded.elementVisibility, loaded.molecule.atoms[i].element)
                     => \E j \in 1..Len(atoms) : atoms[j].originalIndex = i - 1

\* water was loaded with an element hidden and then again with nothing
\* hidden: all its atoms and bonds are back
C14_HiddenThenShown ==
    /\ reloaded /\ loaded.molecule = Water
    /\ \A e \in Elements : ~Hidden(loaded.elementVisibility, e)
    /\ Len(atoms) = 3 /\ Len(bonds) = 2

\* C20 (as claimed): a spin callback that fires while spinning is true adds
\* 0.02 to rotationY as a number, leaves rotationX and the zoom as they were,
\* renders once and requests one further frame (the queue is as long after it
\* as before); one that fires while spinning is false requests none.
C20_TickAddsStep ==
    [][ /\ (fired' /\ spinning)
            => /\ IsNumber(rotation'.y)
               /\ rotation'.y.h = rotation.y.h + 2 /\ rotation'.y.q = rotation.y.q
               /\ rotation'.x = rotation.x
               /\ zoom' = zoom
               /\ renderCount' = 1
               /\ pending' = pending
        /\ (fired' /\ ~spinning) => pending' = pending - 1 ]_vars

\* C15 (as claimed): a registration handled while its username is registered
\* is answered 400 'Username already exists' without a token and leaves the
\* users map, that user's record and password hash included, as it was.
C15_DuplicateRejected ==
    [][ /\ \A slot \in Slots, username \in Usernames, password \in Passwords :
               (username \in DOMAIN users /\ RegisterReceive(slot, username, password))
                   => /\ response' = [status |-> 400, error |-> "Username already exists",
                                      token |-> "", body |-> {}]
                      /\ users' = users
        /\ \A slot \in Slots :
               (RegisterFinish(slot) /\ inflight[slot].username \in DOMAIN users)
                   => /\ response' = [status |-> 400, error |-> "Username already exists",
                                      token |-> "", body |-> {}]
                      /\ users' = users ]_vars

WithoutToken(header) == ~header.present \/ header.token.k = "none"
Unverified(header) == header.present /\ header.token.k = "invalid"

ToVisualizations(header) ==
    \/ GetVisualizations(header)
    \/ \E name \in VisualizationNames, moleculeId \in MoleculeIds :
           PostVisualization(header, name, moleculeId)
    \/ \E id \in VisualizationIds : DeleteVisualization(header, id)

\* C16: a GET, POST or DELETE on /api/visualizations without a token is
\* answered 401 'Access token required', one with a token that does not verify
\* 403 'Invalid or expired token', and both leave the saved visualizations as
\* they were.
C16_NoTokenNoAccess ==
    [][ \A header \in Headers :
            /\ (WithoutToken(header) /\ ToVisualizations(header))
                   => /\ response' = [status |-> 401, error |-> "Access token required",
                                      token |-> "", body |-> {}]
                      /\ savedVisualizations' = savedVisualizations
            /\ (Unverified(header) /\ ToVisualizations(header))
                   => /\ response' = [status |-> 403, error |-> "Invalid or expired token",
                                      token |-> "", body |-> {}]
                      /\ savedVisualizations' = savedVisualizations ]_vars

\* a request with a token that does not verify has been refused while
\* visualizations of both users are stored
C16_RefusedWithEntriesStored ==
    /\ response = [status |-> 403, error |-> "Invalid or expired token",
                   token |-> "", body |-> {}]
    /\ \A username \in Usernames :
           \E id \in DOMAIN savedVisualizations : savedVisualizations[id].username = username

\* C17 (as claimed): an entry of the store goes away or changes only in a
\* DELETE of its id with its owner's token; a DELETE with a verified token
\* removes the entry and answers success iff the entry exists and is the
\* token user's, answers 404 for a missing id and 403 for another user's
\* entry, and leaves the store as it was in both.
C17_OnlyOwnerDeletes ==
    [][ /\ \A id \in DOMAIN savedVisualizations :
               (id \notin DOMAIN savedVisualizations'
                    \/ savedVisualizations'[id] # savedVisualizations[id])
                   => \E username \in Usernames :
                          /\ savedVisualizations[id].username = username
                          /\ DeleteVisualization([present |-> TRUE,
                                 token |-> [k |-> "signed", username |-> username]], id)
        /\ \A username \in Usernames, id \in VisualizationIds :
               DeleteVisualization([present |-> TRUE,
                                    token |-> [k |-> "signed", username |-> username]], id)
                   => IF id \notin DOMAIN savedVisualizations
                      THEN /\ response'.status = 404
                           /\ savedVisualizations' = savedVisualizations
                      ELSE IF savedVisualizations[id].username # username
                      THEN /\ response'.status = 403
                           /\ savedVisualizations' = savedVisualizations
                      ELSE /\ response'.status = 200
                           /\ id \notin DOMAIN savedVisualizations' ]_vars

ByAnother(username) ==
    \E header \in Headers :
        /\ header.token.k = "signed" /\ header.token.username # username
        /\ \/ \E name \in VisualizationNames, moleculeId \in MoleculeIds :
                  PostVisualization(header, name, moleculeId)
           \/ \E id \in VisualizationIds : DeleteVisualization(header, id)

\* C18 (as claimed): a GET with user A's token answers exactly the stored
\* entries whose username is A, and what it would answer A is the same before
\* and after any POST or DELETE made with another user's token.
C18_OwnEntriesOnly ==
    [][ /\ \A username \in Usernames :
               GetVisualizations([present |-> TRUE,
                                  token |-> [k |-> "signed", username |-> username]])
                   => response'.body = {savedVisualizations[id] :
                                           id \in {i \in DOMAIN savedVisualizations :
                                                      savedVisualizations[i].username = username}}
        /\ \A username \in Usernames :
               ByAnother(username)
                   => {v \in MapValues(savedVisualizations') : v.username = username}
                          = {v \in MapValues(savedVisualizations) : v.username = username} ]_vars

\* C19 (as claimed): a login is answered with a token for u iff u is
\* registered and the password supplied is the one u was registered with;
\* every other login is answered 401 'Invalid credentials' without a token;
\* no login changes the users.
C19_TokenIffCredentials ==
    [][ /\ \A slot \in Slots :
               LoginFinish(slot) =>
                   /\ (response'.status = 200 /\ response'.token = inflight[slot].username)
                          <=> /\ inflight[slot].username \in DOMAIN users
                              /\ inflight[slot].password
                                     = registeredWith[inflight[slot].username]
                   /\ response'.status # 200
                          => response' = [status |-> 401, error |-> "Invalid credentials",
                                          token |-> "", body |-> {}]
                   /\ users' = users
        /\ \A slot \in Slots, username \in Usernames \cup {""}, password \in Passwords :
               (username \notin DOMAIN users /\ LoginReceive(slot, username, password))
                   => /\ response' = [status |-> 401, error |-> "Invalid credentials",
                                      token |-> "", body |-> {}]
                      /\ users' = users ]_vars

\* C21: in every run in which the browser fires each requested frame, if from
\* some point on spinning stays false, then from some point on no spin
\* callback is waiting in the frame queue and no step is a spin callback (so
\* none changes the rotation or renders).
C21_SpinQuiesces ==
    <>[](~spinning) => (<>[](pending = 0) /\ <>[][~fired']_vars)

\* the spin ran from the constructor's rotation and was stopped; the last
\* callback waiting has fired without effect and the queue is empty, the
\* rotation where the spin left it
C21_QueueDrained ==
    /\ ~spinning /\ pending = 0 /\ fired /\ renderCount = 0
    /\ rotRef = "literal" /\ rotation.y = Num(51, 0)

\* C22 (as claimed): in every reachable state at most one spin callback is
\* waiting in the animation-frame queue (each callback that fires while
\* spinning adds 0.02 to rotationY, so a frame adds 0.02 and no more).
C22_OnePendingTick == pending <= 1

\* C23 (as claimed): a registration is completed (record written, token
\* signed) only for a username that has no record, so at most one registration
\* per username ever succeeds, and no step changes the record or the password
\* of a user already accepted.
C23_OneRegistrationPerUsername ==
    [][ /\ \A slot \in Slots :
               RegisterFinish(slot) => inflight[slot].username \notin DOMAIN users
        /\ \A username \in DOMAIN users :
               /\ username \in DOMAIN users'
               /\ users'[username] = users[username]
               /\ registeredWith'[username] = registeredWith[username] ]_vars

\* C24 (as claimed): a POST /api/visualizations answered with success leaves
\* every entry stored before it as it was and adds one entry under a new id:
\* the store has exactly one entry more than before.
C24_SaveAddsOne ==
    [][ \A header \in Headers, name \in VisualizationNames, moleculeId \in MoleculeIds :
            (PostVisualization(header, name, moleculeId) /\ response'.status = 200)
                => /\ \A id \in DOMAIN savedVisualizations :
                          /\ id \in DOMAIN savedVisualizations'
                          /\ savedVisualizations'[id] = savedVisualizations[id]
                   /\ Cardinality(DOMAIN savedVisualizations')
                          = Cardinality(DOMAIN savedVisualizations) + 1 ]_vars

\* the scene atom with an originalIndex, and its place in the scene
SceneAtom(index) == atoms[CHOOSE j \in 1..Len(atoms) : atoms[j].originalIndex = index]
ScenePlace(index) == CHOOSE j \in 1..Len(atoms) : atoms[j].originalIndex = index
SceneDepth(index) ==
    Project3D(SceneAtom(index).x, SceneAtom(index).y, SceneAtom(index).z, rotation).z

AtomsDrawn == SelectSeq(Drawn(surface), LAMBDA o : o.op = "atom")

\* C25 (as claimed): whenever the canvas holds a render, each atom of the
\* scene has been drawn exactly once, and of two atoms drawn the one drawn
\* first has the smaller depth under the current rotation, or the same depth
\* and the earlier place in the scene.
C25_AtomsByDepth ==
    surface.kind # "blank" =>
        LET drawn == AtomsDrawn
            depth == [i \in 1..Len(drawn) |-> SceneDepth(drawn[i].originalIndex)]
            place == [i \in 1..Len(drawn) |-> ScenePlace(drawn[i].originalIndex)]
        IN  /\ Len(drawn) = Len(atoms)
            /\ \A j \in 1..Len(atoms) :
                   Cardinality({i \in 1..Len(drawn) :
                                   drawn[i].originalIndex = atoms[j].originalIndex}) = 1
            /\ \A i \in 1..Len(drawn), k \in 1..Len(drawn) :
                   i < k =>
                       /\ depth[i].k = "num" /\ depth[k].k = "num"
                       /\ \/ depth[i].v < depth[k].v
                          \/ depth[i].v = depth[k].v /\ place[i] < place[k]

\* C26 (as claimed): whenever the canvas holds a render, the lines drawn are
\* the bonds of the scene, one line per bond and in scene order, each with
\* line width 2 * order, and every line was drawn before every atom.
C26_BondsBeforeAtoms ==
    surface.kind # "blank" =>
        LET drawn == Drawn(surface)
            lines == SelectSeq(drawn, LAMBDA o : o.op = "line")
        IN  /\ Len(lines) = Len(bonds)
            /\ \A i \in 1..Len(bonds) :
                   /\ lines[i].from = bonds[i].from
                   /\ lines[i].to = bonds[i].to
                   /\ lines[i].lineWidth = 2 * bonds[i].order
            /\ \A i \in 1..Len(drawn), k \in 1..Len(drawn) :
                   (drawn[i].op = "line" /\ drawn[k].op = "atom") => i < k

\* C27: a mousemove while no drag is in progress leaves the rotation, the
\* zoom, the drag state, the recorded position and the canvas as they were and
\* calls no render; a mousedown sets isDragging and records its position, a
\* mouseup clears isDragging, and neither changes the rotation or the zoom or
\* renders.
C27_MoveOutsideDragIsNoOp ==
    [][ /\ \A x \in Pos, y \in Pos :
               (~isDragging /\ MouseMove(x, y))
                   => /\ UNCHANGED <<rotation, rotRef, zoom, isDragging, lastX, lastY, surface>>
                      /\ renderCount' = 0
        /\ \A x \in Pos, y \in Pos :
               MouseDown(x, y)
                   => /\ isDragging' /\ lastX' = x /\ lastY' = y
                      /\ UNCHANGED <<rotation, rotRef, zoom, surface>>
                      /\ renderCount' = 0
        /\ MouseUp
               => /\ ~isDragging'
                  /\ UNCHANGED <<rotation, rotRef, zoom, surface>>
                  /\ renderCount' = 0 ]_vars

\* a drag has moved the pointer and ended, at a zoom other than 1 under the
\* top view: the state a mousemove outside a drag leaves as it is
C27_AfterDrag ==
    /\ ~isDragging /\ lastX = 1 /\ renderCount = 0 /\ ~fired
    /\ zoomOps > 0 /\ rotRef = "top" /\ rotation.y = Num(1, 0) /\ surface.kind = "frame"

\* C28: a wheel event with deltaY > 0 multiplies the zoom by 0.9, one with any
\* other deltaY (0 included) by 1.1; the product is set to 5 when above 5 and
\* to 0.1 when below 0.1; the handler calls preventDefault and renders the new
\* zoom, and leaves rotation, drag state, spinning flag, frame queue and scene
\* as they were - whether a drag is in progress or not, spinning or not.
C28_WheelZooms ==
    [][ \A deltaY \in WheelDeltas :
            Wheel(deltaY, MaxZoomOps) =>
                LET product == Frac(zoom.n * (IF deltaY > 0 THEN 9 ELSE 11), zoom.d * 10)
                IN  /\ zoom' = IF (product.n - 1) \div 5 >= product.d THEN [n |-> 5, d |-> 1]
                                ELSE IF product.n <= (product.d - 1) \div 10 THEN [n |-> 1, d |-> 10]
                                ELSE product
                    /\ defaultPrevented'
                    /\ renderCount' = 1 /\ surface'.zoom = zoom'
                    /\ UNCHANGED <<rotation, rotRef, isDragging, lastX, lastY,
                                   spinning, pending, atoms, bonds>> ]_vars

\* a wheel event during a drag with the spin on has taken the zoom above 5,
\* where it was set to 5
C28_WheelClampedWhileDraggingAndSpinning ==
    /\ defaultPrevented /\ renderCount = 1 /\ ~fired
    /\ isDragging /\ spinning /\ pending > 0
    /\ zoom = ZoomMax /\ surface.zoom = ZoomMax

\* C29: a call of render() leaves the rotation, the zoom, the spinning flag,
\* the frame queue, the drag state and the scene's atoms and bonds (their
\* order included) as they were, draws what render() draws of that state, and
\* when the handler before it ended with a render() it draws the same
\* operations in the same order again.
C29_RenderIsPure ==
    [][ Render =>
            /\ UNCHANGED <<rotation, rotRef, zoom, spinning, pending,
                           isDragging, lastX, lastY, atoms, bonds>>
            /\ Drawn(surface') = DrawOps(atoms, bonds, rotation, zoom)
            /\ renderCount = 1 => Drawn(surface') = Drawn(surface) ]_vars

\* render() has run on a scene of three atoms that it draws in another order
\* than the scene's, and the scene has kept its order
C29_SceneOrderKept ==
    /\ renderCount = 1 /\ ~fired /\ surface.kind = "frame"
    /\ Len(atoms) = 3 /\ Len(AtomsDrawn) = 3
    /\ \A j \in 1..2 : atoms[j].originalIndex < atoms[j + 1].originalIndex
    /\ AtomsDrawn[1].originalIndex # atoms[1].originalIndex

\* C30: setMolecule and clear leave the rotation, the zoom, the drag state,
\* the spinning flag and the frame queue as they were; no setView, resetView,
\* zoomIn, zoomOut, wheel event, pointer move or spin callback is a step that
\* changes the scene's atoms or bonds; no setView or resetView is a step that
\* changes the spinning flag or the frame queue; no zoomIn or zoomOut is a step
\* that changes the rotation.
C30_SceneAndCameraApart ==
    [][ /\ ((\E m \in {NullMolecule, Water} : SetMolecule(m, OmittedMask)) \/ Clear)
               => UNCHANGED <<rotation, rotRef, zoom, isDragging, lastX, lastY,
                              spinning, pending>>
        /\ (atoms' # atoms \/ bonds' # bonds)
               => ~ \/ \E view \in SurfaceViews : SetView(view)
                    \/ ResetView
                    \/ ZoomIn(SurfaceZoomOps)
                    \/ ZoomOut(SurfaceZoomOps)
                    \/ \E deltaY \in WheelDeltas : Wheel(deltaY, SurfaceZoomOps)
                    \/ \E x \in Pos : MouseMove(x, 0)
                    \/ Tick
        /\ (spinning' # spinning \/ pending' # pending)
               => ~((\E view \in SurfaceViews : SetView(view)) \/ ResetView)
        /\ (rotation' # rotation \/ rotRef' # rotRef)
               => ~(ZoomIn(SurfaceZoomOps) \/ ZoomOut(SurfaceZoomOps)) ]_vars

\* water is in the scene and rendered under the top view at a zoom other
\* than 1, during a drag, with the spin on and a callback queued
C30_LoadedWhileSpinning ==
    /\ loaded.called /\ Len(atoms) = 3 /\ surface.atoms = atoms
    /\ renderCount = 1 /\ ~fired /\ ~defaultPrevented
    /\ rotRef = "top" /\ zoomOps > 0 /\ zoom # One
    /\ isDragging /\ spinning /\ pending > 0

====
